---- MODULE Spec2Model ----
(***************************************************************************)
(* Model of src/standard_judge.py: the judging orchestrator.  One run      *)
(* fetches a batch of items from the callback API, submits each to the     *)
(* judge, polls the verdicts, uploads the results and reports the run's    *)
(* status.  The callback API, the identity endpoint and the judge are the  *)
(* environment: every response they can give is a choice of the action     *)
(* that makes the call.                                                    *)
(***************************************************************************)
EXTENDS Integers, Sequences, FiniteSets, TLC

(***************************************************************************)
(* Bounds of the model.                                                    *)
(***************************************************************************)
MaxItems == 2
MaxTicks == 1
MaxCalls == 3
TickSeconds == 45

(***************************************************************************)
(* Program constants.                                                      *)
(***************************************************************************)
Margin == 60

(***************************************************************************)
(* Python's None and Optional values: None is the empty tuple, a present   *)
(* value v is the one-element tuple <<v>>.                                 *)
(***************************************************************************)
None == << >>
Some(v) == << v >>

(***************************************************************************)
(* Program text is a sequence of tokens; "ws" is whitespace, "#include" a  *)
(* preprocessor directive, "stmt" anything else.  The empty sequence is    *)
(* the empty string.                                                       *)
(***************************************************************************)
CppCode == << "#include", "ws", "stmt" >>
PaddedCppCode == << "ws", "#include", "stmt" >>
PyCode == << "stmt", "ws", "stmt" >>
EmptyStr == << >>

RECURSIVE lstrip(_)
lstrip(s) == IF s # << >> /\ Head(s) = "ws" THEN lstrip(Tail(s)) ELSE s

RECURSIVE rstrip(_)
rstrip(s) ==
    IF s # << >> /\ s[Len(s)] = "ws" THEN rstrip(SubSeq(s, 1, Len(s) - 1)) ELSE s

strip(s) == rstrip(lstrip(s))

detect_language(code) ==
    IF strip(code) # << >> /\ Head(strip(code)) = "#include" THEN "CPP" ELSE "PYPY"

(***************************************************************************)
(* Truthiness as Python's `not x` sees it: None, "" and 0 are falsy.       *)
(***************************************************************************)
TruthyStr(opt) == opt # None /\ opt[1] # << >>
TruthyInt(opt) == opt # None /\ opt[1] # 0

(***************************************************************************)
(* text_response is a sequence of blocks, prose or fenced code.  The two   *)
(* extractors live in util, outside the orchestrator: the longest C++      *)
(* block, else None; the first Python block, else None.                    *)
(***************************************************************************)
Block(lang, body) == [lang |-> lang, body |-> body]
ProseText == << Block("prose", << "stmt" >>) >>
CppText == << Block("prose", << "stmt" >>), Block("cpp", << "#include" >>),
              Block("cpp", CppCode) >>
PyText == << Block("python", PyCode), Block("prose", << "stmt" >>) >>
EmptyFenceText == << Block("prose", << "stmt" >>), Block("python", EmptyStr) >>

BlocksOf(text, lang) == { k \in 1..Len(text) : text[k].lang = lang }

extract_longest_cpp_code(text) ==
    IF BlocksOf(text, "cpp") = {} THEN None
    ELSE LET k == CHOOSE k \in BlocksOf(text, "cpp") :
                      \A j \in BlocksOf(text, "cpp") :
                          \/ Len(text[j].body) < Len(text[k].body)
                          \/ (Len(text[j].body) = Len(text[k].body) /\ k <= j)
         IN  Some(text[k].body)

extract_python_code(text) ==
    IF BlocksOf(text, "python") = {} THEN None
    ELSE LET k == CHOOSE k \in BlocksOf(text, "python") :
                      \A j \in BlocksOf(text, "python") : k <= j
         IN  Some(text[k].body)

(* Python's `a or b`: a when a is truthy, else b. *)
OrElse(a, b) == IF TruthyStr(a) THEN a ELSE b

(***************************************************************************)
(* The records the callback API can serve (BenchmarkResult on the wire).   *)
(***************************************************************************)
WireRecord(pid, text, code, jr) ==
    [problem_id |-> pid, problem_title |-> "title", difficulty |-> "hard",
     platform |-> "cf", text_response |-> text, code |-> code,
     judge_result |-> jr, response_meta |-> pid]

WireRecords ==
    { WireRecord("p1", CppText, None, "Judging"),
      WireRecord("p2", PyText, Some(EmptyStr), "Accepted"),
      WireRecord("pX", ProseText, Some(PaddedCppCode), "Judging"),
      WireRecord("p2", EmptyFenceText, None, "Accepted") }

RECURSIVE SeqsUpTo(_, _)
SeqsUpTo(S, n) ==
    IF n = 0 THEN { << >> }
    ELSE LET shorter == SeqsUpTo(S, n - 1)
         IN  shorter \cup { Append(s, x) : s \in shorter, x \in S }

Batches == SeqsUpTo(WireRecords, MaxItems)

(***************************************************************************)
(* The environment's answers.                                              *)
(***************************************************************************)
HttpOutcomes == { "2xx", "non2xx" }
TokenLifetimes == { 60, 100 }
JudgeDataset == { "p1", "p2" }
Verdicts == { "Accepted", "Wrong Answer" }
SidBases == { 0, 1 }

NoToken == [set |-> FALSE, exp |-> 0]
NoErr == [site |-> "", kind |-> ""]
Err(site, kind) == [site |-> site, kind |-> kind]

VARIABLES
    pc,          \* the run's position in __main__ / main()
    idx,         \* index of the item the current loop is at (1-based)
    now,         \* time.time()
    token,       \* the module-level cached token
    inputs,      \* main()'s list of ProblemTestState
    judge,       \* the judge session: "unopened", "open", "closed"
    sidBase,     \* the first submission id the judge backend hands out
    fetched,     \* the list prepare_inputs returned, as it was returned
    submits,     \* the judge.submit calls, in order: [item, lang, out, sid, verdict]
    polled,      \* items judge.get_result was called for
    statusLog,   \* update_status requests sent: [status, resp]
    logLog,      \* append_log requests sent: [msg, resp]
    uploaded,    \* None, or Some(batch) once the output PUT got a 2xx
    err,         \* the exception the top-level handler caught
    fetchResp,   \* the HTTP outcome of the fetch-inputs request, "" before it
    tcalls       \* get_oidc_token calls made on the credential cache alone

vars == << pc, idx, now, token, inputs, judge, sidBase, fetched, submits, polled,
           statusLog, logLog, uploaded, err, fetchResp, tcalls >>

TypeOK ==
    /\ pc \in { "prepare_inputs", "status_running", "enter_judge", "submit", "poll",
                "sleep", "exit_judge", "upload_output", "status_finished",
                "append_log", "status_failed", "done", "crashed" }
    /\ idx \in 0..(MaxItems + 1)
    /\ now \in Nat
    /\ token \in [set : BOOLEAN, exp : Nat]
    /\ Len(inputs) <= MaxItems
    /\ judge \in { "unopened", "open", "closed" }
    /\ sidBase \in SidBases
    /\ Len(submits) <= Len(inputs)
    /\ Len(fetched) = Len(inputs)
    /\ polled \subseteq 1..Len(inputs)
    /\ Len(statusLog) <= 3
    /\ Len(logLog) <= 1

(***************************************************************************)
(* Process start: nothing cached, nothing loaded.                          *)
(***************************************************************************)
Init ==
    /\ pc = "prepare_inputs"
    /\ idx = 0
    /\ now = 0
    /\ token = NoToken
    /\ inputs = << >>
    /\ judge = "unopened"
    /\ sidBase \in SidBases
    /\ fetched = << >>
    /\ submits = << >>
    /\ polled = {}
    /\ statusLog = << >>
    /\ logLog = << >>
    /\ uploaded = None
    /\ err = NoErr
    /\ fetchResp = ""
    /\ tcalls = << >>

(***************************************************************************)
(* Wall-clock time passes.  The run reads the clock only in                *)
(* get_oidc_token, which every API call starts with, so the clock is       *)
(* advanced where the run is about to make an API call.                    *)
(***************************************************************************)
ApiSites == { "prepare_inputs", "status_running", "upload_output",
              "status_finished", "append_log", "status_failed" }

Tick ==
    /\ pc \in ApiSites
    /\ now + TickSeconds <= MaxTicks * TickSeconds
    /\ now' = now + TickSeconds
    /\ UNCHANGED << pc, idx, token, inputs, judge, sidBase, fetched, submits, polled,
                    statusLog, logLog, uploaded, err, fetchResp,
                    tcalls >>

(***************************************************************************)
(* get_oidc_token: the cached token while it has more than Margin seconds  *)
(* left, else one fetch from the identity endpoint.  idok and life are the *)
(* endpoint's answer: whether it answers 2xx and the lifetime of the token *)
(* it issues.                                                              *)
(***************************************************************************)
TokenFresh_AtLeast(tok, t) == tok.set /\ tok.exp >= t + Margin
TokenFresh(tok, t) == tok.set /\ tok.exp > t + Margin

get_oidc_token_NoCache(tok, t, idok, life) ==
    IF TokenFresh(tok, t)
    THEN [raised |-> FALSE, fetched |-> FALSE, token |-> tok]
    ELSE [raised |-> ~idok, fetched |-> TRUE, token |-> tok]

get_oidc_token_CachesOnFail(tok, t, idok, life) ==
    IF TokenFresh(tok, t)
    THEN [raised |-> FALSE, fetched |-> FALSE, token |-> tok]
    ELSE [raised |-> ~idok, fetched |-> TRUE,
          token |-> [set |-> TRUE, exp |-> IF idok THEN t + life ELSE 0]]

get_oidc_token(tok, t, idok, life) ==
    IF TokenFresh(tok, t)
    THEN [raised |-> FALSE, fetched |-> FALSE, token |-> tok]
    ELSE IF ~idok
    THEN [raised |-> TRUE, fetched |-> TRUE, token |-> tok]
    ELSE [raised |-> FALSE, fetched |-> TRUE,
          token |-> [set |-> TRUE, exp |-> t + life]]

(***************************************************************************)
(* One authenticated request followed by raise_for_status: the request is  *)
(* sent when the token was obtained, and the call raises on a credential   *)
(* failure, a network error or a non-2xx response.                         *)
(***************************************************************************)
ApiCall(idok, life, resp) ==
    LET g == get_oidc_token(token, now, idok, life)
    IN  [token |-> g.token,
         sent |-> ~g.raised,
         raised |-> g.raised \/ resp # "2xx",
         kind |-> IF g.raised THEN "credential" ELSE "api"]

(***************************************************************************)
(* prepare_inputs: GET input_file, response.json(), one ProblemTestState   *)
(* per record, code extracted from text_response when the record has none. *)
(***************************************************************************)
ParseRecord(rec) ==
    [problem_id |-> rec.problem_id,
     problem_title |-> rec.problem_title,
     difficulty |-> rec.difficulty,
     platform |-> rec.platform,
     text_response |-> rec.text_response,
     code |-> IF ~TruthyStr(rec.code)
              THEN OrElse(extract_longest_cpp_code(rec.text_response),
                          extract_python_code(rec.text_response))
              ELSE rec.code,
     submission_id |-> None,
     judge_result |-> rec.judge_result,
     response_meta |-> rec.response_meta]

ParseBatch(batch) == [k \in 1..Len(batch) |-> ParseRecord(batch[k])]

(* Whether the fetch-inputs call raises: the status code is never looked   *)
(* at, only a body that is no JSON array of valid records raises.          *)
FetchRaises(resp, parsable) == ~parsable

PrepareInputs ==
    /\ pc = "prepare_inputs"
    /\ \E idok \in BOOLEAN, life \in TokenLifetimes, resp \in HttpOutcomes,
          parsable \in BOOLEAN, batch \in Batches :
        LET g == get_oidc_token(token, now, idok, life) IN
        /\ token' = g.token
        /\ IF g.raised
           THEN /\ pc' = "append_log"
                /\ err' = Err("prepare_inputs", "credential")
                /\ inputs' = inputs
           ELSE IF FetchRaises(resp, parsable)
           THEN /\ pc' = "append_log"
                /\ err' = Err("prepare_inputs", "body")
                /\ inputs' = inputs
           ELSE /\ pc' = "status_running"
                /\ err' = err
                /\ inputs' = ParseBatch(batch)
        /\ fetched' = inputs'
        /\ fetchResp' = IF g.raised THEN fetchResp ELSE resp
    /\ UNCHANGED << idx, now, judge, sidBase, submits, polled, statusLog, logLog,
                    uploaded,
                    tcalls >>

(***************************************************************************)
(* update_status(status), called from `site`; okpc is where the run goes   *)
(* on return, failpc where it goes when the call raises.                   *)
(***************************************************************************)
update_status_NoRaise(status, site, okpc, failpc) ==
    \E idok \in BOOLEAN, life \in TokenLifetimes, resp \in HttpOutcomes :
        LET c == ApiCall(idok, life, resp) IN
        /\ token' = c.token
        /\ statusLog' = IF c.sent
                        THEN Append(statusLog, [status |-> status, resp |-> resp])
                        ELSE statusLog
        /\ pc' = IF ~c.sent THEN failpc ELSE okpc
        /\ err' = IF ~c.sent /\ failpc = "append_log" THEN Err(site, c.kind) ELSE err

update_status(status, site, okpc, failpc) ==
    \E idok \in BOOLEAN, life \in TokenLifetimes, resp \in HttpOutcomes :
        LET c == ApiCall(idok, life, resp) IN
        /\ token' = c.token
        /\ statusLog' = IF c.sent
                        THEN Append(statusLog, [status |-> status, resp |-> resp])
                        ELSE statusLog
        /\ pc' = IF c.raised THEN failpc ELSE okpc
        /\ err' = IF c.raised /\ failpc = "append_log" THEN Err(site, c.kind) ELSE err

UpdateStatusRunning ==
    /\ pc = "status_running"
    /\ update_status("running", "update_status", "enter_judge", "append_log")
    /\ UNCHANGED << idx, now, inputs, judge, sidBase, fetched, submits, polled, logLog,
                    uploaded, fetchResp,
                    tcalls >>

(* with LightCPVerifierJudge(worker=1) as judge *)
EnterJudge ==
    /\ pc = "enter_judge"
    /\ judge' = "open"
    /\ idx' = 1
    /\ pc' = IF Len(inputs) = 0 THEN "exit_judge" ELSE "submit"
    /\ UNCHANGED << now, token, inputs, sidBase, fetched, submits, polled, statusLog,
                    logLog, uploaded, err, fetchResp,
                    tcalls >>

(***************************************************************************)
(* The judge (LightCPVerifierJudge, outside the orchestrator).  submit     *)
(* raises ProblemNotFoundError for a problem outside the dataset, may      *)
(* raise any other error, and otherwise registers the program and returns  *)
(* the next submission id.  get_result answers "Judging" until the verdict *)
(* is final, then the verdict; it may also raise, and does for an id it    *)
(* never handed out.                                                       *)
(***************************************************************************)
SubmitOutcomes(problem_id) ==
    IF problem_id \notin JudgeDataset THEN { "ProblemNotFound" }
    ELSE { "ok", "Exception" }

OkCalls == { k \in 1..Len(submits) : submits[k].out = "ok" }
NextSid == sidBase + Cardinality(OkCalls)
KnownSid(sid) == \E k \in OkCalls : submits[k].sid = sid
SubOf(sid) == submits[CHOOSE k \in OkCalls : submits[k].sid = sid]

ResultOutcomes(sid) ==
    IF KnownSid(sid) THEN { "Judging", SubOf(sid).verdict, "raise" } ELSE { "raise" }

SubmitCall(i, lang, out, v) ==
    [item |-> i, lang |-> lang, out |-> out,
     sid |-> IF out = "ok" THEN NextSid ELSE -1,
     verdict |-> IF out = "ok" THEN v ELSE ""]

(* Line 122: an item without code is not submitted. *)
SkipsSubmit_NoneOnly(item) == item.code = None
SkipsSubmit(item) == ~TruthyStr(item.code)

(* Lines 127-134: which outcomes of judge.submit escape the Submit loop.   *)
(* `except ProblemNotFoundError` and `except Exception` catch them all.    *)
SubmitEscapes_Uncaught(out) == out = "Exception"
SubmitEscapes(out) == FALSE

(* Lines 125-134: the item after a judge.submit call that did not escape. *)
AfterSubmitCall_Sentinel(item, out, sid) ==
    IF out = "ok" THEN [item EXCEPT !.submission_id = Some(sid)]
    ELSE [item EXCEPT !.submission_id = Some(-1), !.judge_result = "Judge Failed"]
AfterSubmitCall(item, out, sid) ==
    IF out = "ok" THEN [item EXCEPT !.submission_id = Some(sid)]
    ELSE [item EXCEPT !.judge_result = "Judge Failed"]

(* Line 137: an item whose submission_id is falsy is not polled. *)
SkipsPoll(item) == ~TruthyInt(item.submission_id)

(* Line 140: the answer of get_result is stored in the polled item. *)
PollStore_Last(items, i, r) == [items EXCEPT ![Len(items)].judge_result = r]
PollStore(items, i, r) == [items EXCEPT ![i].judge_result = r]

(* Where the Submit loop goes after item idx. *)
AfterSubmit ==
    IF idx < Len(inputs) THEN pc' = "submit" /\ idx' = idx + 1
    ELSE pc' = "poll" /\ idx' = 1

(* Where the Poll loop goes after item idx. *)
AfterPoll_SameItem == pc' = "poll" /\ idx' = idx

AfterPoll ==
    IF idx < Len(inputs) THEN pc' = "poll" /\ idx' = idx + 1
    ELSE pc' = "exit_judge" /\ idx' = idx

(***************************************************************************)
(* One iteration of the Submit loop (lines 120-134).                       *)
(***************************************************************************)
SubmitItem ==
    /\ pc = "submit"
    /\ LET item == inputs[idx] IN
       IF SkipsSubmit(item)
       THEN /\ inputs' = [inputs EXCEPT ![idx].judge_result = "Judge Failed"]
            /\ submits' = submits
            /\ AfterSubmit
            /\ UNCHANGED << judge, err >>
       ELSE \E out \in SubmitOutcomes(item.problem_id), v \in Verdicts :
            /\ submits' = Append(submits,
                   SubmitCall(idx, detect_language(item.code[1]), out, v))
            /\ IF SubmitEscapes(out)
               THEN /\ pc' = "append_log"
                    /\ idx' = idx
                    /\ judge' = "closed"
                    /\ err' = Err("submit", "judge")
                    /\ inputs' = inputs
               ELSE /\ inputs' = [inputs EXCEPT
                                    ![idx] = AfterSubmitCall(item, out, NextSid)]
                    /\ AfterSubmit
                    /\ UNCHANGED << judge, err >>
    /\ UNCHANGED << now, token, sidBase, fetched, polled, statusLog, logLog,
                    uploaded, fetchResp,
                    tcalls >>

(***************************************************************************)
(* The Poll loop (lines 135-143): an item without a truthy submission_id   *)
(* is passed over; otherwise one get_result call per step, and a sleep     *)
(* after each "Judging".  An exception leaves the with block, which closes *)
(* the judge session, and reaches the handler of __main__.                 *)
(***************************************************************************)
PollItem ==
    /\ pc = "poll"
    /\ LET item == inputs[idx] IN
       IF SkipsPoll(item)
       THEN /\ AfterPoll
            /\ UNCHANGED << inputs, polled, judge, err >>
       ELSE \E r \in ResultOutcomes(item.submission_id[1]) :
            /\ polled' = polled \cup { idx }
            /\ IF r = "raise"
               THEN /\ pc' = "append_log"
                    /\ idx' = idx
                    /\ judge' = "closed"
                    /\ err' = Err("get_result", "judge")
                    /\ inputs' = inputs
               ELSE /\ inputs' = PollStore(inputs, idx, r)
                    /\ UNCHANGED << judge, err >>
                    /\ IF r = "Judging"
                       THEN pc' = "sleep" /\ idx' = idx
                       ELSE AfterPoll
    /\ UNCHANGED << now, token, sidBase, fetched, submits, statusLog, logLog,
                    uploaded, fetchResp,
                    tcalls >>

(* time.sleep(1), then the next get_result call for the same item. *)
Sleep_GiveUp ==
    /\ pc = "sleep"
    /\ AfterPoll
    /\ UNCHANGED << now, token, inputs, judge, sidBase, fetched, submits, polled,
                    statusLog, logLog, uploaded, err, fetchResp,
                    tcalls >>

Sleep ==
    /\ pc = "sleep"
    /\ pc' = "poll"
    /\ UNCHANGED << idx, now, token, inputs, judge, sidBase, fetched, submits, polled, statusLog, logLog, uploaded, err, fetchResp,
                    tcalls >>

(* Leaving the with block normally. *)
ExitJudge_Leak ==
    /\ pc = "exit_judge"
    /\ pc' = "upload_output"
    /\ UNCHANGED << idx, now, token, inputs, judge, sidBase, fetched, submits, polled,
                    statusLog, logLog, uploaded, err, fetchResp,
                    tcalls >>

ExitJudge ==
    /\ pc = "exit_judge"
    /\ judge' = "closed"
    /\ pc' = "upload_output"
    /\ UNCHANGED << idx, now, token, inputs, sidBase, fetched, submits, polled,
                    statusLog, logLog, uploaded, err, fetchResp,
                    tcalls >>

(***************************************************************************)
(* Line 144: one BenchmarkResult per item; the model has no submission_id  *)
(* field, so the dump drops it.                                            *)
(***************************************************************************)
ToResult_Dump(item) == item

ToResult_Normalised(item) ==
    [problem_id |-> item.problem_id,
     problem_title |-> item.problem_title,
     difficulty |-> item.difficulty,
     platform |-> item.platform,
     text_response |-> item.text_response,
     code |-> IF item.code = None THEN None ELSE Some(strip(item.code[1])),
     judge_result |-> item.judge_result,
     response_meta |-> item.response_meta]

ToResult(item) ==
    [problem_id |-> item.problem_id,
     problem_title |-> item.problem_title,
     difficulty |-> item.difficulty,
     platform |-> item.platform,
     text_response |-> item.text_response,
     code |-> item.code,
     judge_result |-> item.judge_result,
     response_meta |-> item.response_meta]

Results == [k \in 1..Len(inputs) |-> ToResult(inputs[k])]

(***************************************************************************)
(* upload_output: GET the upload URL (authenticated, raise_for_status),    *)
(* then PUT the document to it (raise_for_status).                         *)
(***************************************************************************)
UploadOutput ==
    /\ pc = "upload_output"
    /\ \E idok \in BOOLEAN, life \in TokenLifetimes, resp \in HttpOutcomes,
          put \in HttpOutcomes :
        LET c == ApiCall(idok, life, resp) IN
        /\ token' = c.token
        /\ IF c.raised
           THEN /\ pc' = "append_log"
                /\ err' = Err("upload_output", c.kind)
                /\ uploaded' = uploaded
           ELSE IF put # "2xx"
           THEN /\ pc' = "append_log"
                /\ err' = Err("upload_output", "api")
                /\ uploaded' = uploaded
           ELSE /\ pc' = "status_finished"
                /\ err' = err
                /\ uploaded' = Some(Results)
    /\ UNCHANGED << idx, now, inputs, judge, sidBase, fetched, submits, polled,
                    statusLog, logLog, fetchResp,
                    tcalls >>

(* __main__, line 150. *)
UpdateStatusFinished ==
    /\ pc = "status_finished"
    /\ update_status("finished", "update_status", "done", "append_log")
    /\ UNCHANGED << idx, now, inputs, judge, sidBase, fetched, submits, polled,
                    logLog, uploaded, fetchResp,
                    tcalls >>

(***************************************************************************)
(* The handler of __main__ (lines 151-156): append_log, then               *)
(* update_status("failed").  Neither call is guarded: when one raises the  *)
(* process ends with that exception.                                       *)
(***************************************************************************)
AppendLog_NoRaise ==
    /\ pc = "append_log"
    /\ \E idok \in BOOLEAN, life \in TokenLifetimes, resp \in HttpOutcomes :
        LET c == ApiCall(idok, life, resp) IN
        /\ token' = c.token
        /\ logLog' = IF c.sent THEN Append(logLog, [msg |-> err, resp |-> resp])
                     ELSE logLog
        /\ pc' = IF ~c.sent THEN "crashed" ELSE "status_failed"
    /\ UNCHANGED << idx, now, inputs, judge, sidBase, fetched, submits, polled,
                    statusLog, uploaded, err, fetchResp,
                    tcalls >>

AppendLog ==
    /\ pc = "append_log"
    /\ \E idok \in BOOLEAN, life \in TokenLifetimes, resp \in HttpOutcomes :
        LET c == ApiCall(idok, life, resp) IN
        /\ token' = c.token
        /\ logLog' = IF c.sent THEN Append(logLog, [msg |-> err, resp |-> resp])
                     ELSE logLog
        /\ pc' = IF c.raised THEN "crashed" ELSE "status_failed"
    /\ UNCHANGED << idx, now, inputs, judge, sidBase, fetched, submits, polled,
                    statusLog, uploaded, err, fetchResp,
                    tcalls >>

UpdateStatusFailed ==
    /\ pc = "status_failed"
    /\ update_status("failed", "update_status", "done", "crashed")
    /\ UNCHANGED << idx, now, inputs, judge, sidBase, fetched, submits, polled,
                    logLog, uploaded, fetchResp,
                    tcalls >>

Next ==
    \/ Tick
    \/ PrepareInputs
    \/ UpdateStatusRunning
    \/ EnterJudge
    \/ SubmitItem
    \/ PollItem
    \/ Sleep
    \/ ExitJudge
    \/ UploadOutput
    \/ UpdateStatusFinished
    \/ AppendLog
    \/ UpdateStatusFailed

Spec == Init /\ [][Next]_vars

(***************************************************************************)
(* The credential cache on its own: any caller may call get_oidc_token at  *)
(* any time, any number of times, with time passing between calls or not.  *)
(* Each call is recorded: when it was made, the cache before and after,    *)
(* the identity endpoint's answer, whether the endpoint was asked, whether *)
(* the call raised, and what it returned.                                  *)
(***************************************************************************)
GetToken ==
    /\ Len(tcalls) < MaxCalls
    /\ \E idok \in BOOLEAN, life \in TokenLifetimes :
        LET g == get_oidc_token(token, now, idok, life) IN
        /\ token' = g.token
        /\ tcalls' = Append(tcalls,
               [at |-> now, before |-> token, after |-> g.token,
                idok |-> idok, life |-> life,
                fetched |-> g.fetched, raised |-> g.raised,
                returned |-> IF g.raised THEN None ELSE Some(g.token)])
    /\ UNCHANGED << pc, idx, now, inputs, judge, sidBase, fetched, submits, polled,
                    statusLog, logLog, uploaded, err, fetchResp >>

TokenNext ==
    \/ Tick
    \/ GetToken

TokenSpec == Init /\ [][TokenNext]_vars

(***************************************************************************)
(* A deterministic judge: what submit answers, and the verdict the         *)
(* submission ends with, are functions of the problem, the language and    *)
(* the code.  The submission id it hands out is not: it is the next id of  *)
(* the judge's own counter.                                                *)
(***************************************************************************)
DetOutcome(problem_id, lang, code) ==
    IF problem_id \notin JudgeDataset THEN "ProblemNotFound" ELSE "ok"

DetVerdict(problem_id, lang, code) ==
    IF lang = "CPP" /\ strip(code) = code THEN "Accepted" ELSE "Wrong Answer"

SubmitItemDet ==
    /\ SubmitItem
    /\ submits' # submits =>
          LET c == submits'[Len(submits')]
              item == inputs[idx]
          IN /\ c.out = DetOutcome(item.problem_id, c.lang, item.code[1])
             /\ c.out = "ok" =>
                   c.verdict = DetVerdict(item.problem_id, c.lang, item.code[1])

DetNext ==
    \/ Tick
    \/ PrepareInputs
    \/ UpdateStatusRunning
    \/ EnterJudge
    \/ SubmitItemDet
    \/ PollItem
    \/ Sleep
    \/ ExitJudge
    \/ UploadOutput
    \/ UpdateStatusFinished
    \/ AppendLog
    \/ UpdateStatusFailed

DetSpec == Init /\ [][DetNext]_vars

(***************************************************************************)
(* The runs in which nothing fails: no step enters the handler of __main__ *)
(* or ends the process with an exception, so every credential request and  *)
(* every API call is answered and get_result never raises.  The process    *)
(* keeps running while it has a step to take, and get_result, asked again  *)
(* and again about a submission, eventually answers something else than    *)
(* "Judging".                                                              *)
(***************************************************************************)
NothingFails == pc' \notin { "append_log", "crashed" }

PollAnswered == PollItem /\ pc' # "sleep"

LiveNext ==
    \/ Tick
    \/ PrepareInputs /\ NothingFails
    \/ UpdateStatusRunning /\ NothingFails
    \/ EnterJudge
    \/ SubmitItem /\ NothingFails
    \/ PollItem /\ NothingFails
    \/ Sleep
    \/ ExitJudge
    \/ UploadOutput /\ NothingFails
    \/ UpdateStatusFinished /\ NothingFails

LiveSpec ==
    /\ Init
    /\ [][LiveNext]_vars
    /\ WF_vars(LiveNext)
    /\ SF_vars(PollAnswered /\ NothingFails)

(***************************************************************************)
(* Vocabulary of the properties.                                           *)
(***************************************************************************)
Items == 1..Len(inputs)
Exited == pc \in { "done", "crashed" }
TerminalStatuses == { "finished", "failed" }
SentAt(S) == { k \in 1..Len(statusLog) : statusLog[k].status \in S }
StatusSent(s) == SentAt({ s }) # {}
LogAppended == { k \in 1..Len(logLog) : logLog[k].resp = "2xx" }
SubmitCalled(i) == \E k \in 1..Len(submits) : submits[k].item = i
SubmitReturned(i) == \E k \in OkCalls : submits[k].item = i
FailedCalls == { k \in 1..Len(submits) : submits[k].out # "ok" }
InFailurePath == pc \in { "append_log", "status_failed", "crashed" }
                    \/ (pc = "done" /\ err # NoErr)

(***************************************************************************)
(* C1.  Every item judge.submit returned an id for, whatever the id,       *)
(* carries in the uploaded batch the verdict the judge gives for that      *)
(* submission.  The code passes over an item whose id is 0.                *)
(***************************************************************************)
C1_VerdictReachesOutput ==
    uploaded # None =>
        \A k \in OkCalls : uploaded[1][submits[k].item].judge_result = submits[k].verdict

(***************************************************************************)
(* C2.  An item whose code is empty after the fetch step is never passed   *)
(* to judge.submit, and its judge_result in the uploaded batch is          *)
(* "Judge Failed".                                                         *)
(***************************************************************************)
C2_EmptyCodeNeverSubmitted ==
    \A i \in Items :
        ~TruthyStr(fetched[i].code) =>
            /\ ~SubmitCalled(i)
            /\ uploaded # None => uploaded[1][i].judge_result = "Judge Failed"

C2_Witness ==
    /\ uploaded # None
    /\ \E i \in Items : ~TruthyStr(fetched[i].code)
    /\ \E j \in Items : SubmitReturned(j)

(***************************************************************************)
(* C3.  A judge.submit call that raises never aborts the run: that item is *)
(* marked "Judge Failed" and stays so, the run never reaches the failure   *)
(* handler from the Submit loop, once the loop is left every item has been *)
(* submitted or passed over for lack of code, and an iteration of the loop *)
(* changes no other item.                                                  *)
(***************************************************************************)
C3_SubmitFailureIsolated ==
    /\ [](\A k \in FailedCalls :
            /\ inputs[submits[k].item].judge_result = "Judge Failed"
            /\ err.site # "submit")
    /\ [](judge # "unopened" /\ pc # "submit" =>
            \A i \in Items : SubmitCalled(i) \/ ~TruthyStr(fetched[i].code))
    /\ [][pc = "submit" =>
            /\ Len(inputs') = Len(inputs)
            /\ \A j \in Items \ { idx } : inputs'[j] = inputs[j]]_vars

C3_Witness ==
    /\ uploaded # None
    /\ \E k \in FailedCalls : \E m \in OkCalls :
          /\ k < m
          /\ uploaded[1][submits[k].item].judge_result = "Judge Failed"
          /\ uploaded[1][submits[m].item].judge_result = submits[m].verdict

(***************************************************************************)
(* C4.  A run that has exited has sent exactly one terminal status report, *)
(* "finished" or "failed".  The code sends none when append_log raises,    *)
(* and both when the "finished" report itself raises.                      *)
(***************************************************************************)
C4_ExactlyOneTerminalReport ==
    Exited => Cardinality(SentAt(TerminalStatuses)) = 1

(***************************************************************************)
(* C5 as stated.  Every run reports "running" exactly once and first: a    *)
(* run that has exited, has called judge.submit or has sent a terminal     *)
(* status has sent "running" once, as its first report.                    *)
(***************************************************************************)
C5_RunningExactlyOnceFirst ==
    (Exited \/ submits # << >> \/ SentAt(TerminalStatuses) # {}) =>
        /\ Cardinality(SentAt({ "running" })) = 1
        /\ statusLog[1].status = "running"

(***************************************************************************)
(* C5 as amended.  "running" is reported at most once, never after another *)
(* status report and never by a run that failed while loading its inputs;  *)
(* every judge.submit call and every "finished" report comes after a       *)
(* "running" report the API accepted.                                      *)
(***************************************************************************)
C5_RunningOnceAfterLoad ==
    /\ Cardinality(SentAt({ "running" })) <= 1
    /\ \A k \in SentAt({ "running" }) : k = 1
    /\ (submits # << >> \/ StatusSent("finished")) =>
          /\ statusLog # << >>
          /\ statusLog[1] = [status |-> "running", resp |-> "2xx"]
    /\ (pc = "prepare_inputs" \/ err.site = "prepare_inputs") => ~StatusSent("running")

C5_Witness ==
    /\ Exited
    /\ submits # << >>
    /\ statusLog[1].status = "running"
    /\ StatusSent("failed")

(***************************************************************************)
(* C6 as stated.  After any uncaught failure exactly one log entry has     *)
(* been appended, and "failed" is never reported without it.               *)
(***************************************************************************)
C6_FailureAlwaysLogged ==
    /\ (Exited /\ err # NoErr) => Cardinality(LogAppended) = 1
    /\ StatusSent("failed") => Cardinality(LogAppended) = 1

(***************************************************************************)
(* C6 as amended.  The handler makes at most one append_log request, only  *)
(* after a failure and carrying that failure; "failed" is reported only    *)
(* after the API accepted that entry; when the append itself fails no      *)
(* entry is appended, "failed" is not reported and the process ends with   *)
(* the exception of the append.                                            *)
(***************************************************************************)
C6_FailedOnlyAfterLog ==
    /\ Len(logLog) <= 1
    /\ logLog # << >> => (err # NoErr /\ logLog[1].msg = err)
    /\ (StatusSent("failed") \/ pc = "status_failed") =>
          logLog = << [msg |-> err, resp |-> "2xx"] >>
    /\ (Exited /\ err # NoErr /\ LogAppended = {}) =>
          (pc = "crashed" /\ ~StatusSent("failed"))
    /\ (pc = "done" /\ err # NoErr) => StatusSent("failed")

C6_Witness ==
    /\ pc = "done"
    /\ err.site = "get_result"
    /\ StatusSent("failed")
    /\ LogAppended # {}

(***************************************************************************)
(* C7.  When the identity endpoint fails the first getToken call (the one  *)
(* prepare_inputs makes), the run submits and polls nothing, reports       *)
(* "failed" and appends exactly one log entry describing the credential    *)
(* error.  The handler needs a token itself and guards neither of its      *)
(* calls.                                                                  *)
(***************************************************************************)
C7_CredentialFailureReported ==
    (Exited /\ err = Err("prepare_inputs", "credential")) =>
        /\ submits = << >>
        /\ polled = {}
        /\ StatusSent("failed")
        /\ Cardinality(LogAppended) = 1
        /\ \A k \in LogAppended : logLog[k].msg.kind = "credential"

(***************************************************************************)
(* C8.  A non-2xx answer to the fetch-inputs request aborts the run at     *)
(* that call: nothing is submitted and "running" is not reported.          *)
(* prepare_inputs never looks at the status code.                          *)
(***************************************************************************)
C8_Non2xxFetchAborts ==
    fetchResp = "non2xx" =>
        /\ InFailurePath
        /\ err.site = "prepare_inputs"
        /\ submits = << >>
        /\ ~StatusSent("running")

C10_SubmissionIdIffSubmitted ==
    \A i \in Items :
        /\ inputs[i].submission_id # None <=> SubmitReturned(i)
        /\ \A k \in OkCalls :
              submits[k].item = i => inputs[i].submission_id = Some(submits[k].sid)

C10_Witness ==
    \E i \in Items : \E k \in FailedCalls :
        /\ inputs[i].submission_id # None
        /\ submits[k].item # i
        /\ inputs[submits[k].item].submission_id = None

(***************************************************************************)
(* C11.  The uploaded batch has one record per fetched item, in the same   *)
(* order (record i carries the problem_id of item i), and no record has a  *)
(* submission_id field.                                                    *)
(***************************************************************************)
C11_OutputMirrorsInput ==
    uploaded # None =>
        /\ Len(uploaded[1]) = Len(fetched)
        /\ \A i \in 1..Len(fetched) :
              /\ uploaded[1][i].problem_id = fetched[i].problem_id
              /\ "submission_id" \notin DOMAIN uploaded[1][i]

C11_Witness ==
    /\ uploaded # None
    /\ Len(fetched) = 2
    /\ fetched[1].problem_id # fetched[2].problem_id
    /\ \E i \in Items : inputs[i].submission_id # None
    /\ \E j \in Items : inputs[j].judge_result = "Judge Failed"

(***************************************************************************)
(* C12.  The phases never overlap: once get_result has been called, the    *)
(* Submit loop is over and every item was submitted or marked failed; and  *)
(* the upload starts only when every item that has a submission_id has     *)
(* been polled to a final answer.  The code never polls an item whose id   *)
(* is 0.                                                                   *)
(***************************************************************************)
UploadStarted ==
    \/ pc \in { "upload_output", "status_finished" }
    \/ uploaded # None
    \/ err.site = "upload_output"

C12_PhasesNeverOverlap ==
    /\ polled # {} =>
          /\ pc # "submit"
          /\ \A i \in Items : SubmitCalled(i) \/ inputs[i].judge_result = "Judge Failed"
    /\ UploadStarted =>
          \A i \in Items :
              inputs[i].submission_id # None =>
                  (i \in polled /\ inputs[i].judge_result # "Judging")

(***************************************************************************)
(* C13.  The judge session goes from unopened to open to closed and never  *)
(* back: it is opened before the first judge.submit call, every submit and *)
(* get_result call is made while it is open, and a run that opened it has  *)
(* closed it by the time it exits, on normal completion or on an           *)
(* exception.                                                              *)
(***************************************************************************)
C13_JudgeSessionScoped ==
    /\ [][judge' # judge =>
            \/ (judge = "unopened" /\ judge' = "open" /\ submits = << >> /\ polled = {})
            \/ (judge = "open" /\ judge' = "closed")]_vars
    /\ [][(submits' # submits \/ polled' # polled) => judge = "open"]_vars
    /\ [](pc \in { "submit", "poll", "sleep", "exit_judge" } => judge = "open")
    /\ []((judge # "unopened" /\ pc \notin { "submit", "poll", "sleep", "exit_judge" })
             => judge = "closed")

C13_Witness ==
    /\ Exited
    /\ err.site = "get_result"
    /\ judge = "closed"
    /\ submits # << >>

(***************************************************************************)
(* Vocabulary of the credential-cache properties.                         *)
(***************************************************************************)
Calls == 1..Len(tcalls)
HadFreshToken(c) == c.before.set /\ c.before.exp > c.at + Margin
ImmediatePairs ==
    { k \in Calls : k + 1 \in Calls /\ tcalls[k + 1].at = tcalls[k].at }
FetchCount(k) == (IF tcalls[k].fetched THEN 1 ELSE 0)
                    + (IF tcalls[k + 1].fetched THEN 1 ELSE 0)

(***************************************************************************)
(* C14 as stated.  Two get_oidc_token calls in immediate succession, the   *)
(* first of which has just fetched a token, make one fetch in total.       *)
(***************************************************************************)
C14_TwoCallsOneFetch ==
    \A k \in ImmediatePairs :
        (tcalls[k].fetched /\ ~tcalls[k].raised) => FetchCount(k) = 1

(***************************************************************************)
(* C14 as amended.  Two calls in immediate succession, the first of which  *)
(* has just fetched a token that expires more than 60 seconds later, make  *)
(* one fetch in total and return the same token; when the token just       *)
(* fetched has 60 seconds or less left, the second call fetches again.     *)
(***************************************************************************)
C14_TwoCallsOneFetchIfLongLived ==
    \A k \in ImmediatePairs :
        (tcalls[k].fetched /\ ~tcalls[k].raised) =>
            IF tcalls[k].life > Margin
            THEN /\ FetchCount(k) = 1
                 /\ tcalls[k + 1].returned = tcalls[k].returned
            ELSE FetchCount(k) = 2

C14_Witness ==
    \E k \in ImmediatePairs : \E m \in ImmediatePairs :
        /\ tcalls[k].fetched /\ ~tcalls[k].raised /\ tcalls[k].life > Margin
        /\ tcalls[m].fetched /\ ~tcalls[m].raised /\ tcalls[m].life <= Margin

(***************************************************************************)
(* C16.  get_oidc_token asks the identity endpoint exactly when no token   *)
(* is cached or the cached token expires at or before now + 60; otherwise  *)
(* it returns the cached token and leaves the cache alone.  When it asks   *)
(* and the endpoint answers, the fetched token replaces the cached one and *)
(* is the one returned.                                                    *)
(***************************************************************************)
C16_CachedIffMoreThanMargin ==
    \A k \in Calls :
        LET c == tcalls[k] IN
        /\ ~c.fetched <=> HadFreshToken(c)
        /\ HadFreshToken(c) =>
              (~c.raised /\ c.returned = Some(c.before) /\ c.after = c.before)
        /\ (~HadFreshToken(c) /\ c.idok) =>
              /\ ~c.raised
              /\ c.after = [set |-> TRUE, exp |-> c.at + c.life]
              /\ c.returned = Some(c.after)

C16_Witness ==
    \E k \in Calls : \E m \in Calls : \E n \in Calls :
        /\ HadFreshToken(tcalls[k])
        /\ tcalls[m].before.set /\ tcalls[m].before.exp = tcalls[m].at + Margin
              /\ tcalls[m].fetched /\ ~tcalls[m].raised
        /\ ~tcalls[n].before.set /\ tcalls[n].fetched

(***************************************************************************)
(* C17.  When the identity endpoint fails, get_oidc_token raises after     *)
(* that one request, returns nothing and leaves the cached token as it     *)
(* was; it raises in no other case.                                        *)
(***************************************************************************)
C17_FailedFetchKeepsCache ==
    \A k \in Calls :
        LET c == tcalls[k] IN
        /\ c.raised <=> (~HadFreshToken(c) /\ ~c.idok)
        /\ c.raised =>
              (c.fetched /\ c.returned = None /\ c.after = c.before)
        /\ (c.raised /\ k + 1 \in Calls) => tcalls[k + 1].before = c.before

C17_Witness ==
    \E k \in Calls : \E m \in Calls :
        /\ tcalls[k].raised /\ tcalls[k].before.set
        /\ tcalls[m].raised /\ ~tcalls[m].before.set

(***************************************************************************)
(* C15.  Against the deterministic judge, the batch a run uploads is a     *)
(* function of the batch it fetched, so two runs over the same fetched     *)
(* batch upload the same batch: an item that is not submitted, or whose    *)
(* submission is refused, comes out "Judge Failed", and every other item   *)
(* comes out with the verdict of its (problem_id, language, code), as it   *)
(* does in the run in which no submission gets the id 0.                   *)
(***************************************************************************)
DetResult(item) ==
    [ToResult(item) EXCEPT !.judge_result =
        IF ~TruthyStr(item.code) THEN "Judge Failed"
        ELSE LET lang == detect_language(item.code[1]) IN
             IF DetOutcome(item.problem_id, lang, item.code[1]) # "ok"
             THEN "Judge Failed"
             ELSE DetVerdict(item.problem_id, lang, item.code[1])]

C15_SameBatchSameOutput ==
    uploaded # None =>
        uploaded[1] = [k \in 1..Len(fetched) |-> DetResult(fetched[k])]

C15_ReferenceRun ==
    (uploaded # None /\ sidBase # 0) =>
        uploaded[1] = [k \in 1..Len(fetched) |-> DetResult(fetched[k])]

(***************************************************************************)
(* C18.  A run in which nothing fails, and in which get_result eventually  *)
(* answers something else than "Judging" for every submission it is asked  *)
(* about, eventually uploads the output batch, reports "finished" and      *)
(* ends.                                                                   *)
(***************************************************************************)
RunFinished ==
    /\ pc = "done"
    /\ uploaded # None
    /\ \E k \in SentAt({ "finished" }) : statusLog[k].resp = "2xx"

C18_EventuallyFinished == <>RunFinished

C18_Witness ==
    /\ RunFinished
    /\ \E i \in polled : uploaded[1][i].judge_result \in Verdicts
    /\ \E i \in Items : ~SubmitCalled(i)

(***************************************************************************)
(* C19.  The Poll loop has no limit.  A get_result call that answers       *)
(* "Judging" is followed by the sleep and then by another get_result call  *)
(* for the same item, with nothing counted on the way; and as long as the  *)
(* run is in the Poll loop at item idx, no later item has been polled,     *)
(* nothing is uploaded, the judge session is open and no terminal status   *)
(* has been sent.  So a submission that is "Judging" forever is polled     *)
(* forever.                                                                *)
(***************************************************************************)
AnsweredJudging ==
    /\ pc = "poll"
    /\ ~SkipsPoll(inputs[idx])
    /\ pc' # "append_log"
    /\ inputs'[idx].judge_result = "Judging"

C19_PollLoopUnbounded ==
    /\ [][AnsweredJudging =>
            /\ pc' = "sleep"
            /\ polled' = polled \cup { idx }
            /\ UNCHANGED << idx, judge, uploaded, statusLog, logLog, submits >>]_vars
    /\ [][pc = "sleep" =>
            /\ pc' = "poll"
            /\ UNCHANGED << idx, inputs, polled, judge, uploaded, statusLog,
                            logLog, submits >>]_vars
    /\ [](pc \in { "poll", "sleep" } =>
            /\ polled \subseteq 1..idx
            /\ judge = "open"
            /\ uploaded = None
            /\ SentAt(TerminalStatuses) = {})

C19_Witness ==
    /\ pc = "sleep"
    /\ idx = 1
    /\ Len(inputs) = 2
    /\ TruthyInt(inputs[2].submission_id)
    /\ polled = { 1 }
    /\ inputs[1].judge_result = "Judging"

(***************************************************************************)
(* C20.  The Submit and Poll loops write submission_id and judge_result    *)
(* only: every other field of every item keeps the value it had when       *)
(* prepare_inputs returned, and has that value in the uploaded record.     *)
(***************************************************************************)
PassedThrough ==
    { "problem_id", "problem_title", "difficulty", "platform", "text_response",
      "code", "response_meta" }

C20_OtherFieldsUntouched ==
    /\ Len(inputs) = Len(fetched)
    /\ \A i \in Items : \A f \in PassedThrough : inputs[i][f] = fetched[i][f]
    /\ uploaded # None =>
          /\ Len(uploaded[1]) = Len(fetched)
          /\ \A i \in Items : \A f \in PassedThrough :
                uploaded[1][i][f] = fetched[i][f]

C20_Witness ==
    /\ uploaded # None
    /\ \E i \in Items :
          /\ inputs[i].submission_id # fetched[i].submission_id
          /\ uploaded[1][i].judge_result # fetched[i].judge_result
    /\ \E i \in Items :
          /\ uploaded[1][i].judge_result = "Judge Failed"
          /\ uploaded[1][i].code # None
          /\ strip(uploaded[1][i].code[1]) # uploaded[1][i].code[1]

====
